---- MODULE Spec2Model ----
(***************************************************************************)
(* A model of the url_encoded_data crate (src/src/lib.rs): the segment     *)
(* splitter, the pair decoder and encoder it calls, and the ordered        *)
(* multi-valued store UrlEncodedData with its read views and mutations.    *)
(*                                                                         *)
(* Text is a sequence of byte values (ASCII), so that percent-encoding,    *)
(* percent-decoding and the byte-wise ordering of keys are computed as the *)
(* code computes them.  Option<T> is a sequence of length 0 (None) or      *)
(* 1 (Some).                                                               *)
(***************************************************************************)
EXTENDS Integers, Sequences, FiniteSets, TLC

VARIABLES
    input,                    \* the &str given to parse_from_data_str
    prefix,                   \* UrlEncodedData.prefix
    original_data_str,        \* UrlEncodedData.original_data_str
    original_keys_in_order,   \* UrlEncodedData.original_keys_in_order
    map,                      \* UrlEncodedData.map : key -> Vec of values
    iter_order,               \* the order in which HashMap::iter visits map's keys
    last,                     \* the last call made on the store: op, key, value (one text) or values (a slice)
    nops,                     \* number of mutating calls made so far
    pairs_iterator,           \* UrlEncodedDataPairScanner.pairs_iterator: the bytes its Parse cursor has yet to read
    iterators                 \* the iterators handed out by iter(): bytes yet to read, pairs yielded so far

vars == <<input, prefix, original_data_str, original_keys_in_order, map,
          iter_order, last, nops, pairs_iterator, iterators>>

----------------------------------------------------------------------------
(* Bytes *)

Ch == [qmark |-> 63, amp |-> 38, eq |-> 61, plus |-> 43, sp |-> 32,
       pct |-> 37, star |-> 42, dash |-> 45, dot |-> 46, under |-> 95,
       d0 |-> 48, d9 |-> 57, uA |-> 65, uF |-> 70, uZ |-> 90,
       la |-> 97, lf |-> 102, lz |-> 122]

None == <<>>
Some(x) == <<x>>

\* str::find(c): 1-based index of the first occurrence, 0 when there is none
Find(s, c) ==
    IF \E i \in 1..Len(s) : s[i] = c
    THEN CHOOSE i \in 1..Len(s) : s[i] = c /\ \A j \in 1..(i-1) : s[j] # c
    ELSE 0

\* a variant that strips nothing
trim_start_matches_skipped(s, c) == s

RECURSIVE trim_start_matches(_, _)
trim_start_matches(s, c) ==
    IF s # <<>> /\ Head(s) = c THEN trim_start_matches(Tail(s), c) ELSE s

\* extract_url_encoded_string: the data segment alone
extract_url_encoded_string(s) ==
    LET idx == Find(s, Ch.qmark) IN
    IF idx = 0 THEN s
    ELSE trim_start_matches(SubSeq(s, idx, Len(s)), Ch.qmark)

\* split_url_encoded_string: (prefix, data_str)
split_url_encoded_string(s) ==
    LET idx == Find(s, Ch.qmark) IN
    IF idx = 0 THEN << <<>>, s >>
    ELSE << SubSeq(s, 1, idx),
            trim_start_matches(SubSeq(s, idx + 1, Len(s)), Ch.qmark) >>

----------------------------------------------------------------------------
(* url::form_urlencoded as called by the crate *)

IsHexDigit(b) ==
    \/ b \in Ch.d0..Ch.d9
    \/ b \in Ch.uA..Ch.uF
    \/ b \in Ch.la..Ch.lf

HexVal(b) ==
    IF b \in Ch.d0..Ch.d9 THEN b - Ch.d0
    ELSE IF b \in Ch.uA..Ch.uF THEN b - Ch.uA + 10
    ELSE b - Ch.la + 10

HexDigit(n) == IF n < 10 THEN Ch.d0 + n ELSE Ch.uA + (n - 10)

\* decoding of one half of an entry: '+' becomes ' ', then %XX becomes a byte;
\* a '%' not followed by two hex digits is passed through
RECURSIVE percent_decode(_)
percent_decode(s) ==
    IF s = <<>> THEN <<>>
    ELSE IF Head(s) = Ch.pct /\ Len(s) >= 3 /\ IsHexDigit(s[2]) /\ IsHexDigit(s[3])
         THEN <<16 * HexVal(s[2]) + HexVal(s[3])>> \o percent_decode(SubSeq(s, 4, Len(s)))
         ELSE <<Head(s)>> \o percent_decode(Tail(s))

replace_plus(s) == [i \in 1..Len(s) |-> IF s[i] = Ch.plus THEN Ch.sp ELSE s[i]]

decode(s) == percent_decode(replace_plus(s))

\* a variant that splits an entry on its last '='
RECURSIVE form_urlencoded_parse_last_eq(_)
form_urlencoded_parse_last_eq(data) ==
    IF data = <<>> THEN <<>>
    ELSE LET i        == Find(data, Ch.amp)
             sequence == IF i = 0 THEN data ELSE SubSeq(data, 1, i - 1)
             rest     == IF i = 0 THEN <<>> ELSE SubSeq(data, i + 1, Len(data))
             j        == IF \E h \in 1..Len(sequence) : sequence[h] = Ch.eq
                         THEN CHOOSE h \in 1..Len(sequence) :
                                  /\ sequence[h] = Ch.eq
                                  /\ \A g \in (h + 1)..Len(sequence) : sequence[g] # Ch.eq
                         ELSE 0
             name     == IF j = 0 THEN sequence ELSE SubSeq(sequence, 1, j - 1)
             value    == IF j = 0 THEN <<>> ELSE SubSeq(sequence, j + 1, Len(sequence))
         IN IF sequence = <<>> THEN form_urlencoded_parse_last_eq(rest)
            ELSE << <<decode(name), decode(value)>> >> \o form_urlencoded_parse_last_eq(rest)

\* a variant that takes the empty text for one empty entry
RECURSIVE form_urlencoded_parse_of_one_entry(_)
form_urlencoded_parse_of_one_entry(data) ==
    LET i        == Find(data, Ch.amp)
        sequence == IF i = 0 THEN data ELSE SubSeq(data, 1, i - 1)
        rest     == IF i = 0 THEN <<>> ELSE SubSeq(data, i + 1, Len(data))
        j        == Find(sequence, Ch.eq)
        name     == IF j = 0 THEN sequence ELSE SubSeq(sequence, 1, j - 1)
        value    == IF j = 0 THEN <<>> ELSE SubSeq(sequence, j + 1, Len(sequence))
        others   == IF rest = <<>> THEN <<>> ELSE form_urlencoded_parse_of_one_entry(rest)
    IN IF sequence = <<>> /\ data # <<>> THEN others
       ELSE << <<decode(name), decode(value)>> >> \o others

\* a variant that turns an empty entry into the pair ("", "")
RECURSIVE form_urlencoded_parse_keeping_empty(_)
form_urlencoded_parse_keeping_empty(data) ==
    IF data = <<>> THEN <<>> ELSE
    LET i        == Find(data, Ch.amp)
        sequence == IF i = 0 THEN data ELSE SubSeq(data, 1, i - 1)
        j        == Find(sequence, Ch.eq)
        name     == IF j = 0 THEN sequence ELSE SubSeq(sequence, 1, j - 1)
        value    == IF j = 0 THEN <<>> ELSE SubSeq(sequence, j + 1, Len(sequence))
    IN << <<decode(name), decode(value)>> >> \o
           (IF i = 0 THEN <<>>
            ELSE form_urlencoded_parse_keeping_empty(SubSeq(data, i + 1, Len(data))))

\* form_urlencoded::parse(data).into_iter().collect(): the decoded pairs of a
\* data segment, one per non-empty '&'-separated entry, split on its first '='
RECURSIVE form_urlencoded_parse(_)
form_urlencoded_parse(data) ==
    IF data = <<>> THEN <<>>
    ELSE LET i        == Find(data, Ch.amp)
             sequence == IF i = 0 THEN data ELSE SubSeq(data, 1, i - 1)
             rest     == IF i = 0 THEN <<>> ELSE SubSeq(data, i + 1, Len(data))
             j        == Find(sequence, Ch.eq)
             name     == IF j = 0 THEN sequence ELSE SubSeq(sequence, 1, j - 1)
             value    == IF j = 0 THEN <<>> ELSE SubSeq(sequence, j + 1, Len(sequence))
         IN IF sequence = <<>> THEN form_urlencoded_parse(rest)
            ELSE << <<decode(name), decode(value)>> >> \o form_urlencoded_parse(rest)

\* byte_serialize of one byte
byte_serialize(b) ==
    IF \/ b \in {Ch.star, Ch.dash, Ch.dot, Ch.under}
       \/ b \in Ch.d0..Ch.d9
       \/ b \in Ch.uA..Ch.uZ
       \/ b \in Ch.la..Ch.lz
    THEN <<b>>
    ELSE IF b = Ch.sp THEN <<Ch.plus>>
    ELSE <<Ch.pct, HexDigit(b \div 16), HexDigit(b % 16)>>

RECURSIVE append_encoded(_)
append_encoded(s) ==
    IF s = <<>> THEN <<>> ELSE byte_serialize(Head(s)) \o append_encoded(Tail(s))

\* a variant that writes no '=' after a key whose value is empty
append_pair_bare_key(string, k, v) ==
    (IF Len(string) > 0 THEN string \o <<Ch.amp>> ELSE string)
        \o append_encoded(k) \o (IF v = <<>> THEN <<>> ELSE <<Ch.eq>> \o append_encoded(v))

\* a variant that never writes the '&' between two pairs
append_pair_unseparated(string, k, v) ==
    string \o append_encoded(k) \o <<Ch.eq>> \o append_encoded(v)

\* Serializer::append_pair on the string built so far
append_pair(string, k, v) ==
    (IF Len(string) > 0 THEN string \o <<Ch.amp>> ELSE string)
        \o append_encoded(k) \o <<Ch.eq>> \o append_encoded(v)

\* stringify / UrlEncodedData::stringify: the serializer fed every pair in order
RECURSIVE SerializeFrom(_, _)
SerializeFrom(string, pairs) ==
    IF pairs = <<>> THEN string
    ELSE SerializeFrom(append_pair(string, Head(pairs)[1], Head(pairs)[2]), Tail(pairs))

stringify(pairs) == SerializeFrom(<<>>, pairs)

----------------------------------------------------------------------------
(* UrlEncodedData: construction *)

\* a variant that puts the value in front of the key's earlier values
entry_or_default_push_front(m, k, v) ==
    IF k \in DOMAIN m THEN [m EXCEPT ![k] = <<v>> \o @]
    ELSE m @@ (k :> <<v>>)

\* map.entry(k).or_default().push(v)
entry_or_default_push(m, k, v) ==
    IF k \in DOMAIN m THEN [m EXCEPT ![k] = Append(@, v)]
    ELSE m @@ (k :> <<v>>)

Contains(seq, x) == \E i \in 1..Len(seq) : seq[i] = x

\* a variant of the loop that records the key of every pair in the ledger
RECURSIVE FoldPairs_recording_every_key(_, _, _)
FoldPairs_recording_every_key(pairs, m, keys) ==
    IF pairs = <<>> THEN <<m, keys>>
    ELSE FoldPairs_recording_every_key(
             Tail(pairs),
             entry_or_default_push(m, Head(pairs)[1], Head(pairs)[2]),
             Append(keys, Head(pairs)[1]))

\* the loop of parse_from_data_str over the collected pairs:
\* <<map, original_keys_in_order>> after folding `pairs` into <<m, keys>>
RECURSIVE FoldPairs(_, _, _)
FoldPairs(pairs, m, keys) ==
    IF pairs = <<>> THEN <<m, keys>>
    ELSE LET k == Head(pairs)[1]
             v == Head(pairs)[2]
         IN FoldPairs(Tail(pairs),
                      entry_or_default_push(m, k, v),
                      IF ~Contains(keys, k) THEN Append(keys, k) ELSE keys)

EmptyMap == [k \in {} |-> <<>>]

\* parse_from_data_str(s): the fields of the store it returns
parse_from_data_str(s) ==
    LET sp     == split_url_encoded_string(s)
        pairs  == form_urlencoded_parse(sp[2])
        folded == FoldPairs(pairs, EmptyMap, <<>>)
    IN [prefix |-> sp[1],
        original_data_str |-> sp[2],
        map |-> folded[1],
        original_keys_in_order |-> folded[2]]

\* every order in which a HashMap holding the keys S may iterate them
IterOrders(S) ==
    {o \in [1..Cardinality(S) -> S] : \A i, j \in 1..Cardinality(S) : o[i] = o[j] => i = j}

----------------------------------------------------------------------------
(* UrlEncodedData: read views of the current fields *)

\* for element in vals { vector.push((k, element)) }
RECURSIVE PushAll(_, _, _)
PushAll(vector, k, vals) ==
    IF vals = <<>> THEN vector
    ELSE PushAll(Append(vector, <<k, Head(vals)>>), k, Tail(vals))

\* for (k, v) in self.map.iter() { for i in v.iter() { vector.push((k, i)) } }
RECURSIVE PairsLoop(_, _)
PairsLoop(vector, ks) ==
    IF ks = <<>> THEN vector
    ELSE PairsLoop(PushAll(vector, Head(ks), map[Head(ks)]), Tail(ks))

as_pairs == PairsLoop(<<>>, iter_order)

\* a variant of the first loop that walks the ledger from its last key back
RECURSIVE OldKeysLoop_backwards(_, _)
OldKeysLoop_backwards(vector, olds) ==
    IF olds = <<>> THEN vector
    ELSE OldKeysLoop_backwards(IF olds[Len(olds)] \in DOMAIN map
                               THEN PushAll(vector, olds[Len(olds)], map[olds[Len(olds)]])
                               ELSE vector,
                               SubSeq(olds, 1, Len(olds) - 1))

\* the first loop of as_pairs_of_original_order, over original_keys_in_order
RECURSIVE OldKeysLoop(_, _)
OldKeysLoop(vector, olds) ==
    IF olds = <<>> THEN vector
    ELSE OldKeysLoop(IF Head(olds) \in DOMAIN map
                     THEN PushAll(vector, Head(olds), map[Head(olds)])
                     ELSE vector,
                     Tail(olds))

\* a variant of the second loop that does not pass over the keys of the ledger
RECURSIVE LeftKeysLoop_all(_, _)
LeftKeysLoop_all(vector, ks) ==
    IF ks = <<>> THEN vector
    ELSE LeftKeysLoop_all(PushAll(vector, Head(ks), map[Head(ks)]), Tail(ks))

\* its second loop ("now add left"), over self.map.iter()
RECURSIVE LeftKeysLoop(_, _)
LeftKeysLoop(vector, ks) ==
    IF ks = <<>> THEN vector
    ELSE LeftKeysLoop(IF ~Contains(original_keys_in_order, Head(ks))
                      THEN PushAll(vector, Head(ks), map[Head(ks)])
                      ELSE vector,
                      Tail(ks))

\* a variant that emits the left-over keys before the keys of the ledger
as_pairs_of_original_order_left_first ==
    OldKeysLoop(LeftKeysLoop(<<>>, iter_order), original_keys_in_order)

\* a variant that replays the map's own iteration order instead of the ledger
as_pairs_of_original_order_unordered == PairsLoop(<<>>, iter_order)

as_pairs_of_original_order ==
    LeftKeysLoop(OldKeysLoop(<<>>, original_keys_in_order), iter_order)

\* Ord for str: byte-wise lexicographic
RECURSIVE StrLess(_, _)
StrLess(x, y) ==
    IF y = <<>> THEN FALSE
    ELSE IF x = <<>> THEN TRUE
    ELSE IF Head(x) # Head(y) THEN Head(x) < Head(y)
    ELSE StrLess(Tail(x), Tail(y))

\* sort_unstable of a vector of distinct keys
RECURSIVE InsertSorted(_, _)
InsertSorted(sorted, k) ==
    IF sorted = <<>> THEN <<k>>
    ELSE IF StrLess(k, Head(sorted)) THEN <<k>> \o sorted
    ELSE <<Head(sorted)>> \o InsertSorted(Tail(sorted), k)

\* a variant that leaves the keys as the map iterates them
sort_unstable_skipped(ks) == ks

RECURSIVE sort_unstable(_)
sort_unstable(ks) ==
    IF ks = <<>> THEN <<>> ELSE InsertSorted(sort_unstable(Tail(ks)), Head(ks))

as_pairs_of_sorted_order == PairsLoop(<<>>, sort_unstable(iter_order))

to_string == prefix \o stringify(as_pairs)

\* a variant that forgets the stored prefix
to_string_of_original_order_without_prefix == stringify(as_pairs_of_original_order)

to_string_of_original_order == prefix \o stringify(as_pairs_of_original_order)

\* a variant that serializes the unordered pairs
to_string_of_sorted_order_unsorted == prefix \o stringify(as_pairs)

to_string_of_sorted_order == prefix \o stringify(as_pairs_of_sorted_order)

\* a variant that overwrites the value kept for a key already seen
RECURSIVE FirstOccurrenceLoop_overwriting(_, _)
FirstOccurrenceLoop_overwriting(m, pairs) ==
    IF pairs = <<>> THEN m
    ELSE LET k == Head(pairs)[1]
             v == Head(pairs)[2]
         IN FirstOccurrenceLoop_overwriting(
                IF k \in DOMAIN m THEN [m EXCEPT ![k] = v] ELSE m @@ (k :> v), Tail(pairs))

\* m.entry(k).or_insert(v) for every pair of as_pairs()
RECURSIVE FirstOccurrenceLoop(_, _)
FirstOccurrenceLoop(m, pairs) ==
    IF pairs = <<>> THEN m
    ELSE LET k == Head(pairs)[1]
             v == Head(pairs)[2]
         IN FirstOccurrenceLoop(IF k \in DOMAIN m THEN m ELSE m @@ (k :> v), Tail(pairs))

as_map_of_single_key_to_first_occurrence_value == FirstOccurrenceLoop(EmptyMap, as_pairs)

\* m.insert(k, v) for every pair of as_pairs()
RECURSIVE LastOccurrenceLoop(_, _)
LastOccurrenceLoop(m, pairs) ==
    IF pairs = <<>> THEN m
    ELSE LET k == Head(pairs)[1]
             v == Head(pairs)[2]
         IN LastOccurrenceLoop(IF k \in DOMAIN m THEN [m EXCEPT ![k] = v] ELSE m @@ (k :> v),
                               Tail(pairs))

as_map_of_single_key_to_last_occurrence_value == LastOccurrenceLoop(EmptyMap, as_pairs)

\* a variant that answers a missing key with an empty value
MapGet_or_default(m, key) == IF key \in DOMAIN m THEN Some(m[key]) ELSE Some(<<>>)

\* HashMap::get
MapGet(m, key) == IF key \in DOMAIN m THEN Some(m[key]) ELSE None

get_multiple_values(key) == MapGet(map, key)

get_first_occurrence_value(key) ==
    MapGet(as_map_of_single_key_to_first_occurrence_value, key)

get_last_occurrence_value(key) ==
    MapGet(as_map_of_single_key_to_last_occurrence_value, key)

\* get / get_first / get_last: the same results as &str
get(key) == get_multiple_values(key)

\* a variant that answers a key without values with the empty text
get_first_or_empty(key) ==
    IF key \in DOMAIN map /\ map[key] = <<>> THEN Some(<<>>)
    ELSE get_first_occurrence_value(key)

get_first(key) == get_first_occurrence_value(key)

get_last(key) == get_last_occurrence_value(key)

RECURSIVE SumLens(_)
SumLens(ks) == IF ks = <<>> THEN 0 ELSE Len(map[Head(ks)]) + SumLens(Tail(ks))

\* a variant that counts the keys instead of their values
len_counting_keys == Cardinality(DOMAIN map)

len == SumLens(iter_order)

keys_length == Cardinality(DOMAIN map)

keys == iter_order

\* keys_of_original_order: every ledger key found in ks is moved, in ledger
\* order, to the front; what is left of ks follows
\* a variant of ks.remove(pos) that leaves the key in ks
RemoveAt_keeping(seq, pos) == seq

RemoveAt(seq, pos) == SubSeq(seq, 1, pos - 1) \o SubSeq(seq, pos + 1, Len(seq))

RECURSIVE FrontLoop(_, _, _)
FrontLoop(olds, ks, front) ==
    IF olds = <<>> THEN front \o ks
    ELSE LET pos == Find(ks, Head(olds)) IN
         IF pos # 0
         THEN FrontLoop(Tail(olds), RemoveAt(ks, pos), Append(front, ks[pos]))
         ELSE FrontLoop(Tail(olds), ks, front)

\* a variant that returns the map's keys as they come
keys_of_original_order_unordered == iter_order

keys_of_original_order == FrontLoop(original_keys_in_order, iter_order, <<>>)

\* a variant that sorts the keys in descending order
RECURSIVE Reversed(_)
Reversed(ks) == IF ks = <<>> THEN <<>> ELSE Append(Reversed(Tail(ks)), Head(ks))

keys_of_sorted_order_descending == Reversed(sort_unstable(iter_order))

keys_of_sorted_order == sort_unstable(iter_order)

----------------------------------------------------------------------------
(* UrlEncodedData: mutations *)

\* HashMap::insert(key, value)
\* a variant that keeps no other key
HashMapInsert_alone(m, key, value) == (key :> value)

HashMapInsert(m, key, value) ==
    [k \in DOMAIN m \cup {key} |-> IF k = key THEN value ELSE m[k]]

\* a variant that removes only the first value of the key
HashMapRemove_first_value(m, key) ==
    IF key \in DOMAIN m /\ Len(m[key]) > 1 THEN [m EXCEPT ![key] = Tail(@)]
    ELSE [k \in DOMAIN m \ {key} |-> m[k]]

\* HashMap::remove(key)
HashMapRemove(m, key) == [k \in DOMAIN m \ {key} |-> m[k]]

\* a variant whose occupied arm inserts the value at the front
EntryPush_front(m, key, value) ==
    IF key \in DOMAIN m THEN [m EXCEPT ![key] = <<value>> \o @]
    ELSE m @@ (key :> <<value>>)

\* match self.map.entry(key) { Occupied => push(value), Vacant => insert(vec![value]) }
EntryPush(m, key, value) ==
    IF key \in DOMAIN m THEN [m EXCEPT ![key] = Append(@, value)]
    ELSE m @@ (key :> <<value>>)

\* the iteration order of the keys that stay in the table after a removal
Remaining(order, m) == LET Kept(k) == k \in DOMAIN m IN SelectSeq(order, Kept)

\* bounds of the model
MaxOps == 2
MaxEntries == 3
MaxParseEntries == 3

\* texts used as arguments and inputs
K_a == <<97>>
K_b == <<98>>
K_n == <<97, 98>>
K_m == <<109>>
AllKeys == {K_a, K_b, K_n, K_m, <<>>}
V_1 == <<49>>
V_2 == <<50>>
V_sp == <<32, 122>>

\* the i-th entry of an input whose i-th key is k: k "=" and the digit i,
\* so that every value of an input is told apart by its place ("a=1&b=2&a=3")
EntryText(k, i) == k \o <<Ch.eq, Ch.d0 + i>>
\* "", "x?"
Prefixes == { <<>>, <<120, 63>> }
InputKeys == {K_a, K_b}

MutKeys == {K_a, K_n}
MutValues == {V_2, V_sp}
SetValues == { <<>>, <<V_sp, V_2>> }

RECURSIVE Join(_)
Join(entries) ==
    IF entries = <<>> THEN <<>>
    ELSE IF Len(entries) = 1 THEN Head(entries)
    ELSE Head(entries) \o <<Ch.amp>> \o Join(Tail(entries))

Inputs ==
    { p \o Join([i \in 1..Len(ks) |-> EntryText(ks[i], i)]) :
          p \in Prefixes,
          ks \in UNION {[1..n -> InputKeys] : n \in 0..MaxEntries} }

\* the state after UrlEncodedData::parse_from_data_str(input)
Init ==
    /\ input \in Inputs
    /\ LET q == parse_from_data_str(input) IN
         /\ prefix = q.prefix
         /\ original_data_str = q.original_data_str
         /\ original_keys_in_order = q.original_keys_in_order
         /\ map = q.map
         /\ iter_order \in IterOrders(DOMAIN q.map)
    /\ last = [op |-> "parse_from_data_str", key |-> <<>>, value |-> <<>>, values |-> <<>>]
    /\ nops = 0
    /\ pairs_iterator = <<>>
    /\ iterators = <<>>

\* what set(key, value) does to the store it consumes and returns
SetStore(key, value) ==
    /\ map' = HashMapInsert(map, key, value)
    /\ iter_order' \in IterOrders(DOMAIN map')
    /\ UNCHANGED <<input, prefix, original_data_str, original_keys_in_order>>
    /\ UNCHANGED <<pairs_iterator, iterators>>

set(key, value) ==
    /\ nops < MaxOps
    /\ SetStore(key, value)
    /\ last' = [op |-> "set", key |-> key, value |-> <<>>, values |-> value]
    /\ nops' = nops + 1

\* a variant of set_one that keeps the earlier values of the key
set_one_keeping(key, value) ==
    /\ nops < MaxOps
    /\ map' = EntryPush(map, key, value)
    /\ iter_order' \in IterOrders(DOMAIN map')
    /\ last' = [op |-> "set_one", key |-> key, value |-> value, values |-> <<>>]
    /\ nops' = nops + 1
    /\ UNCHANGED <<input, prefix, original_data_str, original_keys_in_order>>
    /\ UNCHANGED <<pairs_iterator, iterators>>

set_one(key, value) ==
    /\ nops < MaxOps
    /\ map' = HashMapInsert(map, key, <<value>>)
    /\ iter_order' \in IterOrders(DOMAIN map')
    /\ last' = [op |-> "set_one", key |-> key, value |-> value, values |-> <<>>]
    /\ nops' = nops + 1
    /\ UNCHANGED <<input, prefix, original_data_str, original_keys_in_order>>
    /\ UNCHANGED <<pairs_iterator, iterators>>

push(key, value) ==
    /\ nops < MaxOps
    /\ map' = EntryPush(map, key, value)
    /\ iter_order' \in IterOrders(DOMAIN map')
    /\ last' = [op |-> "push", key |-> key, value |-> value, values |-> <<>>]
    /\ nops' = nops + 1
    /\ UNCHANGED <<input, prefix, original_data_str, original_keys_in_order>>
    /\ UNCHANGED <<pairs_iterator, iterators>>

\* a variant of delete that also strikes the key from the ledger
delete_purging(key) ==
    /\ nops < MaxOps
    /\ map' = HashMapRemove(map, key)
    /\ iter_order' = Remaining(iter_order, map')
    /\ original_keys_in_order' =
           LET Other(k) == k # key IN SelectSeq(original_keys_in_order, Other)
    /\ last' = [op |-> "delete", key |-> key, value |-> <<>>, values |-> <<>>]
    /\ nops' = nops + 1
    /\ UNCHANGED <<input, prefix, original_data_str, pairs_iterator, iterators>>

delete(key) ==
    /\ nops < MaxOps
    /\ map' = HashMapRemove(map, key)
    /\ iter_order' = Remaining(iter_order, map')
    /\ last' = [op |-> "delete", key |-> key, value |-> <<>>, values |-> <<>>]
    /\ nops' = nops + 1
    /\ UNCHANGED <<input, prefix, original_data_str, original_keys_in_order>>
    /\ UNCHANGED <<pairs_iterator, iterators>>

\* a variant of clear that also empties the ledger
clear_with_ledger ==
    /\ nops < MaxOps
    /\ map' = EmptyMap
    /\ iter_order' = <<>>
    /\ original_keys_in_order' = <<>>
    /\ last' = [op |-> "clear", key |-> <<>>, value |-> <<>>, values |-> <<>>]
    /\ nops' = nops + 1
    /\ UNCHANGED <<input, prefix, original_data_str>>
    /\ UNCHANGED <<pairs_iterator, iterators>>

clear ==
    /\ nops < MaxOps
    /\ map' = EmptyMap
    /\ iter_order' = <<>>
    /\ last' = [op |-> "clear", key |-> <<>>, value |-> <<>>, values |-> <<>>]
    /\ nops' = nops + 1
    /\ UNCHANGED <<input, prefix, original_data_str, original_keys_in_order>>
    /\ UNCHANGED <<pairs_iterator, iterators>>

Next ==
    \/ \E key \in MutKeys, value \in SetValues : set(key, value)
    \/ \E key \in MutKeys, value \in MutValues : set_one(key, value)
    \/ \E key \in MutKeys, value \in MutValues : push(key, value)
    \/ \E key \in MutKeys : delete(key)
    \/ clear

Spec == Init /\ [][Next]_vars

----------------------------------------------------------------------------
(* Construction alone, over a wider family of input texts *)

\* "a=1", "a=2", "b=1", "b", "", "a=+", "a=%31", "=%2B", "b==", "a=?"
ParseEntryTexts ==
    { <<97, 61, 49>>, <<97, 61, 50>>, <<98, 61, 49>>, <<98>>, <<>>,
      <<97, 61, 43>>, <<97, 61, 37, 51, 49>>, <<61, 37, 50, 66>>,
      <<98, 61, 61>>, <<97, 61, 63>> }
\* "", "x?", "x???"
ParsePrefixes == { <<>>, <<120, 63>>, <<120, 63, 63, 63>> }

ParseInputs ==
    { p \o Join(es) : p \in ParsePrefixes,
                      es \in UNION {[1..n -> ParseEntryTexts] : n \in 0..MaxParseEntries} }

\* a text is at hand and no store has been built from it yet
InitParse ==
    /\ input \in ParseInputs
    /\ prefix = <<>>
    /\ original_data_str = <<>>
    /\ original_keys_in_order = <<>>
    /\ map = EmptyMap
    /\ iter_order = <<>>
    /\ last = [op |-> "none", key |-> <<>>, value |-> <<>>, values |-> <<>>]
    /\ nops = 0
    /\ pairs_iterator = <<>>
    /\ iterators = <<>>

\* UrlEncodedData::parse_from_data_str(input)
ParseFromDataStr ==
    /\ last.op = "none"
    /\ LET q == parse_from_data_str(input) IN
         /\ prefix' = q.prefix
         /\ original_data_str' = q.original_data_str
         /\ original_keys_in_order' = q.original_keys_in_order
         /\ map' = q.map
         /\ iter_order' \in IterOrders(DOMAIN q.map)
    /\ last' = [op |-> "parse_from_data_str", key |-> <<>>, value |-> <<>>, values |-> <<>>]
    /\ UNCHANGED <<input, nops, pairs_iterator, iterators>>

\* a variant of the scanner's iter() that yields only the first pair of each key
RECURSIVE FirstPairOfEachKey(_, _)
FirstPairOfEachKey(pairs, seen) ==
    IF pairs = <<>> THEN <<>>
    ELSE IF Head(pairs)[1] \in seen THEN FirstPairOfEachKey(Tail(pairs), seen)
    ELSE <<Head(pairs)>> \o FirstPairOfEachKey(Tail(pairs), seen \cup {Head(pairs)[1]})

UrlEncodedDataPairScanner_iter_merging ==
    FirstPairOfEachKey(form_urlencoded_parse(pairs_iterator), {})

\* UrlEncodedDataPairScanner::iter(), drained: the pairs that a copy of
\* pairs_iterator, the cursor parse() set on the bytes of original_data_str,
\* yields
UrlEncodedDataPairScanner_iter == form_urlencoded_parse(pairs_iterator)

\* UrlEncodedDataPairScanner::parse_from_str(input)
UrlEncodedDataPairScanner_parse_from_str ==
    /\ last.op \in {"none", "stringify"}
    /\ LET sp == split_url_encoded_string(input) IN
         /\ prefix' = sp[1]
         /\ original_data_str' = sp[2]
         /\ pairs_iterator' = sp[2]
    /\ last' = [last EXCEPT !.op = "scanner_parse_from_str"]
    /\ UNCHANGED <<input, original_keys_in_order, map, iter_order, nops, iterators>>

NextParse ==
    \/ ParseFromDataStr
    \/ UrlEncodedDataPairScanner_parse_from_str

SpecParse == InitParse /\ [][NextParse]_vars

----------------------------------------------------------------------------
(* Pairs encoded by stringify and read back through the scanner's iterators *)

MaxPairs == 2
MaxIterators == 2

\* "", "a", "-." and "", "1", "z~"
PairKeys == { <<>>, K_a, <<45, 46>> }
PairValues == { <<>>, V_1, <<122, 126>> }
PairSlices ==
    UNION {[1..n -> {<<k, v>> : k \in PairKeys, v \in PairValues}] : n \in 0..MaxPairs}

\* a slice of pairs is at hand and nothing has been written from it yet
InitScan ==
    /\ input = <<>>
    /\ prefix = <<>>
    /\ original_data_str = <<>>
    /\ original_keys_in_order = <<>>
    /\ map = EmptyMap
    /\ iter_order = <<>>
    /\ last \in {[op |-> "pairs", key |-> <<>>, value |-> <<>>, values |-> pairs] :
                     pairs \in PairSlices}
    /\ nops = 0
    /\ pairs_iterator = <<>>
    /\ iterators = <<>>

\* stringify(pairs): its text is what the scanner is then given
Stringify ==
    /\ last.op = "pairs"
    /\ input' = stringify(last.values)
    /\ last' = [last EXCEPT !.op = "stringify"]
    /\ UNCHANGED <<prefix, original_data_str, original_keys_in_order, map, iter_order,
                   nops, pairs_iterator, iterators>>

\* Parse::next on the bytes yet to read: the next pair, if any, and the bytes
\* left after it; empty entries are passed over
RECURSIVE ParseNext(_)
ParseNext(data) ==
    IF data = <<>> THEN [item |-> None, input |-> <<>>]
    ELSE LET i        == Find(data, Ch.amp)
             sequence == IF i = 0 THEN data ELSE SubSeq(data, 1, i - 1)
             rest     == IF i = 0 THEN <<>> ELSE SubSeq(data, i + 1, Len(data))
             j        == Find(sequence, Ch.eq)
             name     == IF j = 0 THEN sequence ELSE SubSeq(sequence, 1, j - 1)
             value    == IF j = 0 THEN <<>> ELSE SubSeq(sequence, j + 1, Len(sequence))
         IN IF sequence = <<>> THEN ParseNext(rest)
            ELSE [item |-> Some(<<decode(name), decode(value)>>), input |-> rest]

\* scanner.iter(): self.pairs_iterator.into_iter() on a copy of the cursor
IterCall ==
    /\ last.op = "scanner_parse_from_str"
    /\ Len(iterators) < MaxIterators
    /\ iterators' = Append(iterators, [input |-> pairs_iterator, yielded |-> <<>>])
    /\ UNCHANGED <<input, prefix, original_data_str, original_keys_in_order, map,
                   iter_order, last, nops, pairs_iterator>>

\* a variant of next() on an iterator that shares the scanner's cursor
IteratorNext_sharing_cursor(i) ==
    /\ i \in 1..Len(iterators)
    /\ iterators[i].input # <<>>
    /\ LET r == ParseNext(iterators[i].input) IN
         /\ iterators' = [iterators EXCEPT ![i] =
                              [input |-> r.input, yielded |-> @.yielded \o r.item]]
         /\ pairs_iterator' = r.input
    /\ UNCHANGED <<input, prefix, original_data_str, original_keys_in_order, map,
                   iter_order, last, nops>>

\* next() on the i-th iterator handed out
IteratorNext(i) ==
    /\ i \in 1..Len(iterators)
    /\ iterators[i].input # <<>>
    /\ LET r == ParseNext(iterators[i].input) IN
         iterators' = [iterators EXCEPT ![i] =
                          [input |-> r.input, yielded |-> @.yielded \o r.item]]
    /\ UNCHANGED <<input, prefix, original_data_str, original_keys_in_order, map,
                   iter_order, last, nops, pairs_iterator>>

NextScan ==
    \/ Stringify
    \/ UrlEncodedDataPairScanner_parse_from_str
    \/ IterCall
    \/ \E i \in 1..MaxIterators : IteratorNext(i)

SpecScan == InitScan /\ [][NextScan]_vars

----------------------------------------------------------------------------
(* Vocabulary of the properties *)

KeysOfPairs(pairs) == [i \in 1..Len(pairs) |-> pairs[i][1]]

\* the values paired with k, in the order of the pairs
ValuesFor(pairs, k) ==
    LET HasKey(p) == p[1] = k
        sel == SelectSeq(pairs, HasKey)
    IN [i \in 1..Len(sel) |-> sel[i][2]]

Occurs(ks, k) == \E i \in 1..Len(ks) : ks[i] = k

\* every occurrence of a key is adjacent to its other occurrences
Contiguous(ks) ==
    \A i, j \in 1..Len(ks) :
        (i < j /\ ks[i] = ks[j]) => \A h \in i..j : ks[h] = ks[i]

InLedger(k) == Contains(original_keys_in_order, k)

\* keys of the ledger come first and in ledger order; the others follow
LedgerFirst(ks) ==
    \A i, j \in 1..Len(ks) :
        (i < j /\ InLedger(ks[j])) =>
            /\ InLedger(ks[i])
            /\ Find(original_keys_in_order, ks[i]) <= Find(original_keys_in_order, ks[j])

\* the keys of the pairs that the text `str` decodes to, once its prefix is dropped
KeysOfString(str) ==
    KeysOfPairs(form_urlencoded_parse(SubSeq(str, Len(prefix) + 1, Len(str))))

Mutated == nops > 0

\* the step just taken was a call of the mutation `op`
Called(op) == nops' = nops + 1 /\ last'.op = op

----------------------------------------------------------------------------
(* C1 *)

OriginalOrderShape ==
    LET pairs == as_pairs_of_original_order
        ks    == KeysOfPairs(pairs)
    IN /\ \A i \in 1..Len(ks) : ks[i] \in DOMAIN map
       /\ \A k \in DOMAIN map : ValuesFor(pairs, k) = map[k]
       /\ Contiguous(ks)
       /\ LedgerFirst(ks)

\* C1 as stated: in every reachable store the original-order pairs list the
\* ledger keys still in entries first, in ledger order, each with all its values
\* contiguously in insertion order, then the keys absent from the ledger, and
\* every key of entries is emitted (exactly once).
C1_AsStated ==
    /\ OriginalOrderShape
    /\ \A k \in DOMAIN map : Occurs(KeysOfPairs(as_pairs_of_original_order), k)

\* C1 (amended): the same ordering, where the keys emitted, each exactly once,
\* are the keys of entries that hold at least one value; a key whose value list
\* is empty (after set(key, [])) contributes no pair.
C1_OriginalOrderPairs ==
    /\ OriginalOrderShape
    /\ \A k \in DOMAIN map :
           Occurs(KeysOfPairs(as_pairs_of_original_order), k) <=> map[k] # <<>>

\* a mutated store with a ledger key deleted, a ledger key holding several
\* values and a key that is not in the ledger
C1_Witness ==
    /\ Mutated
    /\ \E k \in DOMAIN map : InLedger(k) /\ Len(map[k]) >= 2
    /\ \E k \in DOMAIN map : ~InLedger(k) /\ Len(map[k]) >= 1
    /\ \E i \in 1..Len(original_keys_in_order) : original_keys_in_order[i] \notin DOMAIN map

----------------------------------------------------------------------------
(* C2 *)

OriginalKeysInEntries == {k \in DOMAIN map : InLedger(k)}

\* the keys of the original parse, one per decoded pair
ParsedKeys == KeysOfPairs(form_urlencoded_parse(original_data_str))

\* the original keys found in `ks` stand in the order of their first
\* appearance in the original parse
PositionFromParse(ks) ==
    LET parsed == ParsedKeys
        shown == ks
    IN \A k, k2 \in OriginalKeysInEntries :
           (Occurs(shown, k) /\ Occurs(shown, k2)) =>
               ((Find(shown, k) < Find(shown, k2)) <=> (Find(parsed, k) < Find(parsed, k2)))

PositionKept ==
    /\ PositionFromParse(KeysOfPairs(as_pairs_of_original_order))
    /\ PositionFromParse(keys_of_original_order)
    /\ PositionFromParse(KeysOfString(to_string_of_original_order))

AfterWrite == last.op \in {"set", "set_one", "push"}

\* "a=1&b=2" and set_one("a", " z") give "a=+z&b=2"
ReplayExample ==
    (input = <<97, 61, 49, 38, 98, 61, 50>> /\ nops = 1
        /\ last.op = "set_one" /\ last.key = K_a /\ last.value = V_sp)
    => to_string_of_original_order = <<97, 61, 43, 122, 38, 98, 61, 50>>

\* a call of set, set_one or push changes the values of its own key only
OnlyItsValuesChange ==
    (Called("set") \/ Called("set_one") \/ Called("push")) =>
        \A k \in DOMAIN map : k # last'.key => (k \in DOMAIN map' /\ map'[k] = map[k])

\* C2 as stated: after set, set_one or push every original key that is in
\* entries is found in the original-order pairs, keys and string at the place,
\* relative to the other original keys, that the original parse gave it; only
\* the values of the key written change.
C2_AsStated ==
    /\ [](/\ PositionKept
          /\ ReplayExample
          /\ AfterWrite =>
                LET inKeys == keys_of_original_order
                    inPairs == KeysOfPairs(as_pairs_of_original_order)
                    inString == KeysOfString(to_string_of_original_order)
                IN \A k \in OriginalKeysInEntries :
                       /\ Occurs(inKeys, k)
                       /\ Occurs(inPairs, k)
                       /\ Occurs(inString, k))
    /\ [][OnlyItsValuesChange]_vars

\* C2 (amended): the same, except that an original key is found in the
\* original-order pairs and string exactly when it holds at least one value:
\* set(k, []) keeps k in entries, and in keys_of_original_order() at its place,
\* but leaves no pair of k to list or serialize.
C2_OriginalOrderReplay ==
    /\ [](/\ PositionKept
          /\ ReplayExample
          /\ AfterWrite =>
                LET inKeys == keys_of_original_order
                    inPairs == KeysOfPairs(as_pairs_of_original_order)
                    inString == KeysOfString(to_string_of_original_order)
                IN \A k \in OriginalKeysInEntries :
                       /\ Occurs(inKeys, k)
                       /\ Occurs(inPairs, k) <=> map[k] # <<>>
                       /\ Occurs(inString, k) <=> map[k] # <<>>)
    /\ [][OnlyItsValuesChange]_vars

\* "b=1&a=2" after set_one("a", " z"): the second key of the parse was
\* rewritten while the map iterates it first
C2_Witness ==
    /\ input = <<98, 61, 49, 38, 97, 61, 50>>
    /\ nops = 1
    /\ last.op = "set_one" /\ last.key = K_a /\ last.value = V_sp
    /\ iter_order = <<K_a, K_b>>
    /\ to_string_of_original_order = <<98, 61, 49, 38, 97, 61, 43, 122>>

----------------------------------------------------------------------------
(* C3 *)

\* no key outside the ledger stands before a key of the ledger
NewKeysLast(ks) ==
    \A i, j \in 1..Len(ks) : (~InLedger(ks[i]) /\ InLedger(ks[j])) => j < i

\* C3: in every reachable store, every pair (and key) of the original-order
\* views whose key is absent from the arrival ledger comes after every pair
\* (and key) whose key is in the ledger.
C3_NewKeysAfterOriginalKeys ==
    /\ NewKeysLast(KeysOfPairs(as_pairs_of_original_order))
    /\ NewKeysLast(keys_of_original_order)
    /\ NewKeysLast(KeysOfString(to_string_of_original_order))

\* a key was just introduced by a mutation into a store that still holds an
\* original key, and the map iterates the new key first
C3_Witness ==
    /\ last.op \in {"set", "set_one", "push"}
    /\ ~InLedger(last.key)
    /\ last.key \in DOMAIN map /\ map[last.key] # <<>>
    /\ \E k \in DOMAIN map : InLedger(k) /\ map[k] # <<>>
    /\ iter_order[1] = last.key

----------------------------------------------------------------------------
(* C4 *)

Parsed == last.op = "parse_from_data_str"

\* the pairs the input decodes to
DecodedPairs == form_urlencoded_parse(split_url_encoded_string(input)[2])

\* the text is already in the form the crate writes: nothing but the prefix
\* precedes the data segment, and the data segment is what stringify gives
\* for the pairs it decodes to
Canonical(s) ==
    LET sp == split_url_encoded_string(s) IN
    /\ s = sp[1] \o sp[2]
    /\ sp[2] = stringify(form_urlencoded_parse(sp[2]))

\* C4 as stated: for every canonical input s,
\* to_string_of_original_order(parse_from_data_str(s)) = s.
C4_AsStated ==
    (Parsed /\ Canonical(input)) => to_string_of_original_order = input

\* C4 (amended): for every canonical input s in which the entries of each key
\* are adjacent, to_string_of_original_order(parse_from_data_str(s)) = s; the
\* store groups the values of a key at the key's first position, so
\* "a=1&b=1&a=2" is written back as "a=1&a=2&b=1".
C4_RoundTrip ==
    (Parsed /\ Canonical(input) /\ Contiguous(KeysOfPairs(DecodedPairs)))
        => to_string_of_original_order = input

\* "x?a=1&a=+&=%2B" parsed and written back
C4_Witness ==
    /\ Parsed
    /\ input = <<120, 63, 97, 61, 49, 38, 97, 61, 43, 38, 61, 37, 50, 66>>
    /\ Canonical(input)
    /\ to_string_of_original_order = input

----------------------------------------------------------------------------
(* C5 *)

KeysOfInput == {DecodedPairs[i][1] : i \in 1..Len(DecodedPairs)}

\* C5: in the freshly parsed store, get_multiple_values(k) and get(k) are, for
\* every key k, exactly the values of the decoded pairs whose key is k, in
\* their order of appearance, and not found when there is no such pair.
C5_MultiplicityPreserved ==
    Parsed =>
        LET pairs == DecodedPairs
            found == KeysOfInput
        IN \A k \in found \cup AllKeys :
               LET expected == IF k \in found THEN Some(ValuesFor(pairs, k)) ELSE None
               IN /\ get_multiple_values(k) = expected
                  /\ get(k) = expected

\* "a=2&b&a=1": the values of one key, parted by an entry of another key
C5_Witness ==
    /\ Parsed
    /\ input = <<97, 61, 50, 38, 98, 38, 97, 61, 49>>
    /\ get(K_a) = Some(<< <<50>>, <<49>> >>)
    /\ get(K_b) = Some(<< <<>> >>)

----------------------------------------------------------------------------
(* C6 *)

----------------------------------------------------------------------------
(* C7 *)

\* C7: in every reachable store, every lookup of a key that is not in entries
\* reports not-found.
C7_LookupMiss ==
    \A k \in AllKeys \ DOMAIN map :
        /\ get_multiple_values(k) = None
        /\ get(k) = None
        /\ get_first_occurrence_value(k) = None
        /\ get_first(k) = None
        /\ get_last_occurrence_value(k) = None
        /\ get_last(k) = None

\* a key of the original parse was deleted from a store that holds other keys
C7_Witness ==
    /\ last.op = "delete"
    /\ InLedger(last.key)
    /\ last.key \notin DOMAIN map
    /\ DOMAIN map # {}
    /\ get_first(last.key) = None

----------------------------------------------------------------------------
(* C8 *)

\* C8: after set(key, values), get(key) is exactly values, whatever key held
\* before; set_one(key, v) leaves the store that set(key, [v]) leaves.
C8_SetReplaces ==
    /\ [](/\ last.op = "set" => get(last.key) = Some(last.values)
          /\ last.op = "set_one" => get(last.key) = Some(<<last.value>>))
    /\ [][Called("set_one") => SetStore(last'.key, <<last'.value>>)]_vars

\* set_one on a key that held two values, and set of an empty slice on a key
\* that held a value, have both happened
C8_Witness ==
    /\ nops = 2
    /\ last.op = "set_one" /\ last.key = K_a
    /\ input = <<97, 61, 49, 38, 97, 61, 50>>
    /\ K_n \in DOMAIN map /\ map[K_n] = << V_sp, V_2 >>

----------------------------------------------------------------------------
(* C9 *)

ValuesBefore(k) == IF k \in DOMAIN map THEN map[k] ELSE <<>>

\* C9: push(key, value) leaves key with its earlier values, in their order,
\* followed by value (value alone when key was absent); get_last(key) is then
\* value and len() is one more than before.
C9_PushAppends ==
    /\ [](last.op = "push" => get_last(last.key) = Some(last.value))
    /\ [][Called("push") =>
            /\ map'[last'.key] = Append(ValuesBefore(last'.key), last'.value)
            /\ len' = len + 1]_vars

\* a value was pushed onto a key that already held one
C9_Witness ==
    /\ last.op = "push"
    /\ Len(map[last.key]) >= 2
    /\ map[last.key][1] # last.value

----------------------------------------------------------------------------
(* C10 *)

\* C10: after delete(key), every lookup of key reports not-found and no pair
\* view or key view shows key; deleting a key that is absent changes nothing
\* in the store.
C10_DeleteRemoves ==
    /\ [](last.op = "delete" =>
            /\ get(last.key) = None
            /\ get_first(last.key) = None
            /\ get_last(last.key) = None
            /\ ~Occurs(KeysOfPairs(as_pairs), last.key)
            /\ ~Occurs(KeysOfPairs(as_pairs_of_original_order), last.key)
            /\ ~Occurs(KeysOfPairs(as_pairs_of_sorted_order), last.key)
            /\ ~Occurs(keys, last.key)
            /\ ~Occurs(keys_of_original_order, last.key)
            /\ ~Occurs(keys_of_sorted_order, last.key))
    /\ [][(Called("delete") /\ last'.key \notin DOMAIN map) =>
            UNCHANGED <<input, prefix, original_data_str, original_keys_in_order,
                        map, iter_order>>]_vars

\* the first call deleted a key of the original parse that held two values
C10_Witness ==
    /\ nops = 1
    /\ last.op = "delete"
    /\ InLedger(last.key)
    /\ Len(ValuesFor(DecodedPairs, last.key)) >= 2
    /\ DOMAIN map # {}

----------------------------------------------------------------------------
(* C11 *)

\* C11: after clear(), len() and keys_length() are 0 and every lookup reports
\* not-found; the call leaves the prefix and the ledger as they were.
C11_ClearEmpties ==
    /\ [](last.op = "clear" =>
            /\ len = 0
            /\ keys_length = 0
            /\ \A k \in AllKeys :
                   /\ get(k) = None
                   /\ get_multiple_values(k) = None
                   /\ get_first(k) = None
                   /\ get_last(k) = None)
    /\ [][Called("clear") => UNCHANGED <<prefix, original_keys_in_order>>]_vars

\* a store with a prefix and two ledger keys was cleared
C11_Witness ==
    /\ last.op = "clear"
    /\ prefix # <<>>
    /\ Len(original_keys_in_order) = 2
    /\ map = EmptyMap

----------------------------------------------------------------------------
(* C12 *)

\* the sum of the lengths of the value lists of the keys in S
RECURSIVE TotalValues(_)
TotalValues(S) ==
    IF S = {} THEN 0
    ELSE LET k == CHOOSE x \in S : TRUE IN Len(map[k]) + TotalValues(S \ {k})

\* C12: in every reachable store len() is the sum of the lengths of all value
\* lists in entries and keys_length() is the number of distinct keys in entries.
C12_Counts ==
    /\ len = TotalValues(DOMAIN map)
    /\ keys_length = Cardinality(DOMAIN map)
    /\ keys_length = Len(keys)

\* a mutated store whose keys hold 2, 1 and 0 values
C12_Witness ==
    /\ Mutated
    /\ keys_length = 3
    /\ len = 3
    /\ \E k \in DOMAIN map : map[k] = <<>>
    /\ \E k \in DOMAIN map : Len(map[k]) = 2

----------------------------------------------------------------------------
(* C13 *)

\* x comes strictly before y in byte-wise lexicographic order
LexLess(x, y) ==
    \E i \in 1..Len(y) :
        /\ \A j \in 1..(i - 1) : j <= Len(x) /\ x[j] = y[j]
        /\ (i > Len(x) \/ x[i] < y[i])

StrictlyAscending(ks) == \A i \in 1..(Len(ks) - 1) : LexLess(ks[i], ks[i + 1])

\* C13: in every reachable store keys_of_sorted_order() lists the keys of
\* entries strictly ascending in lexicographic order, and
\* as_pairs_of_sorted_order() lists the keys in that order with each key's
\* values in stored order; both are fixed by entries alone, whatever the parse
\* order, the mutation order and the iteration order of the map.
C13_SortedOrder ==
    LET ks    == keys_of_sorted_order
        pairs == as_pairs_of_sorted_order
        pks   == KeysOfPairs(pairs)
    IN /\ StrictlyAscending(ks)
       /\ {ks[i] : i \in 1..Len(ks)} = DOMAIN map
       /\ \A i, j \in 1..Len(pks) : i < j => (pks[i] = pks[j] \/ LexLess(pks[i], pks[j]))
       /\ \A i \in 1..Len(pks) : pks[i] \in DOMAIN map
       /\ \A k \in DOMAIN map : ValuesFor(pairs, k) = map[k]

\* the map iterates "b", "ab", "a" while the sorted views give "a", "ab", "b"
C13_Witness ==
    /\ iter_order = <<K_b, K_n, K_a>>
    /\ keys_of_sorted_order = <<K_a, K_n, K_b>>
    /\ Len(as_pairs_of_sorted_order) >= 4

----------------------------------------------------------------------------
(* C14 *)

\* C14: in every reachable store keys_of_original_order() lists each key of
\* entries exactly once and no other key: the keys of the ledger first, in
\* ledger order, then the keys outside the ledger; a ledger key deleted from
\* entries is not listed.
C14_KeysOfOriginalOrder ==
    LET ks == keys_of_original_order
    IN /\ \A k \in DOMAIN map : Cardinality({i \in 1..Len(ks) : ks[i] = k}) = 1
       /\ \A i \in 1..Len(ks) : ks[i] \in DOMAIN map
       /\ LedgerFirst(ks)
       /\ \A k \in AllKeys : (InLedger(k) /\ k \notin DOMAIN map) => ~Occurs(ks, k)

\* the first ledger key was deleted, a new key was added, and the map iterates
\* the new key first
C14_Witness ==
    /\ Len(original_keys_in_order) = 2
    /\ original_keys_in_order[1] \notin DOMAIN map
    /\ iter_order = <<K_n, original_keys_in_order[2]>>
    /\ keys_of_original_order = <<original_keys_in_order[2], K_n>>

----------------------------------------------------------------------------
(* C15 *)

\* the input text up to and including its first '?', empty when it has none
PrefixOfInput ==
    IF \E i \in 1..Len(input) : input[i] = Ch.qmark
    THEN SubSeq(input, 1, CHOOSE i \in 1..Len(input) :
                              input[i] = Ch.qmark /\ \A j \in 1..(i - 1) : input[j] # Ch.qmark)
    ELSE <<>>

\* C15: in every reachable store to_string(), to_string_of_original_order()
\* and to_string_of_sorted_order() are the prefix of the input followed by
\* the encoding of as_pairs(), as_pairs_of_original_order() and
\* as_pairs_of_sorted_order(); "x?a=1", parsed and not mutated, is written
\* back in original order as "x?a=1".
C15_SerializationComposition ==
    /\ to_string = PrefixOfInput \o stringify(as_pairs)
    /\ to_string_of_original_order = PrefixOfInput \o stringify(as_pairs_of_original_order)
    /\ to_string_of_sorted_order = PrefixOfInput \o stringify(as_pairs_of_sorted_order)
    /\ (input = <<120, 63, 97, 61, 49>> /\ nops = 0)
           => to_string_of_original_order = <<120, 63, 97, 61, 49>>

\* "x?b=1&a=2" after push("ab", "2"): the three strings differ in order only
C15_Witness ==
    /\ input = <<120, 63, 98, 61, 49, 38, 97, 61, 50>>
    /\ last.op = "push" /\ last.key = K_n /\ nops = 1
    /\ iter_order = <<K_n, K_b, K_a>>
    /\ to_string = <<120, 63, 97, 98, 61, 50, 38, 98, 61, 49, 38, 97, 61, 50>>
    /\ to_string_of_original_order = <<120, 63, 98, 61, 49, 38, 97, 61, 50, 38, 97, 98, 61, 50>>
    /\ to_string_of_sorted_order = <<120, 63, 97, 61, 50, 38, 97, 98, 61, 50, 38, 98, 61, 49>>

----------------------------------------------------------------------------
(* C16 *)

\* the store or the scanner has been built from the input
Split == last.op \in {"parse_from_data_str", "scanner_parse_from_str"}

HasQmark(s) == \E i \in 1..Len(s) : s[i] = Ch.qmark

\* C16: for every input s, split_url_encoded_string(s) is ("", s) when s has
\* no '?'; otherwise its prefix is s up to and including the first '?' and its
\* data segment is what follows that '?' once every further leading '?' is
\* dropped, so it never starts with '?'. extract_url_encoded_string(s) is that
\* same data segment.
C16_SegmentSplitter ==
    Split =>
        /\ ~HasQmark(input) => (prefix = <<>> /\ original_data_str = input)
        /\ HasQmark(input) =>
               \E i \in 1..Len(input) :
                   /\ input[i] = Ch.qmark
                   /\ \A j \in 1..(i - 1) : input[j] # Ch.qmark
                   /\ prefix = SubSeq(input, 1, i)
                   /\ \E n \in 0..(Len(input) - i) :
                          /\ \A j \in (i + 1)..(i + n) : input[j] = Ch.qmark
                          /\ original_data_str = SubSeq(input, i + n + 1, Len(input))
        /\ (original_data_str # <<>> => original_data_str[1] # Ch.qmark)
        /\ extract_url_encoded_string(input) = original_data_str
        /\ (input = <<120, 63>> => (prefix = <<120, 63>> /\ original_data_str = <<>>))
        /\ (input = <<120, 63, 63, 63, 97, 61, 49>>
               => (prefix = <<120, 63>> /\ original_data_str = <<97, 61, 49>>))

\* "x???a=?&b" is split into "x?" and "a=?&b"
C16_Witness ==
    /\ Split
    /\ input = <<120, 63, 63, 63, 97, 61, 63, 38, 98>>
    /\ prefix = <<120, 63>>
    /\ original_data_str = <<97, 61, 63, 38, 98>>

----------------------------------------------------------------------------
(* C17 *)

\* the pieces of s between the occurrences of c
RECURSIVE SplitOn(_, _)
SplitOn(s, c) ==
    IF \A i \in 1..Len(s) : s[i] # c THEN <<s>>
    ELSE LET i == CHOOSE h \in 1..Len(s) : s[h] = c /\ \A g \in 1..(h - 1) : s[g] # c
         IN <<SubSeq(s, 1, i - 1)>> \o SplitOn(SubSeq(s, i + 1, Len(s)), c)

\* the '&'-separated entries of the data segment
EntriesOfData == SplitOn(original_data_str, Ch.amp)

\* the pair the entry rule gives: the decoded text before the first '=' and
\* the decoded text after it, or the whole entry and "" when it has no '='
PairOfEntry(entry) ==
    IF \A i \in 1..Len(entry) : entry[i] # Ch.eq THEN <<decode(entry), <<>>>>
    ELSE LET j == CHOOSE h \in 1..Len(entry) :
                      entry[h] = Ch.eq /\ \A g \in 1..(h - 1) : entry[g] # Ch.eq
         IN <<decode(SubSeq(entry, 1, j - 1)), decode(SubSeq(entry, j + 1, Len(entry)))>>

\* the entry decodes to its pair and the store holds that pair
DecodedAndKept(entry) ==
    LET pair == PairOfEntry(entry) IN
    /\ form_urlencoded_parse(entry) = <<pair>>
    /\ pair[1] \in DOMAIN map
    /\ \E i \in 1..Len(map[pair[1]]) : map[pair[1]][i] = pair[2]

\* "b" is ("b", ""), "=%2B" is ("", "+"), "b==" is ("b", "=")
EntryExamples ==
    /\ form_urlencoded_parse(<<98>>) = << <<K_b, <<>>>> >>
    /\ form_urlencoded_parse(<<61, 37, 50, 66>>) = << << <<>>, <<43>> >> >>
    /\ form_urlencoded_parse(<<98, 61, 61>>) = << <<K_b, <<61>>>> >>

\* C17 as stated: every entry of a non-empty data segment decodes to the pair
\* of the entry rule (split on the first '=', the whole entry and "" when
\* there is none), and the store keeps that pair, empty halves included.
C17_AsStated ==
    (Parsed /\ original_data_str # <<>>) =>
        /\ LET es == EntriesOfData IN \A i \in 1..Len(es) : DecodedAndKept(es[i])
        /\ EntryExamples

\* C17 (amended): every non-empty entry decodes to the pair of the entry rule
\* and the store keeps that pair, empty halves included; an empty entry
\* (between two '&', or before the first or after the last) gives no pair.
C17_EntryDecoding ==
    Parsed =>
        /\ LET es == EntriesOfData
           IN \A i \in 1..Len(es) : es[i] # <<>> => DecodedAndKept(es[i])
        /\ form_urlencoded_parse(<<>>) = <<>>
        /\ EntryExamples

\* "b&=%2B&b==" gives b -> ["", "="] and "" -> ["+"]
C17_Witness ==
    /\ Parsed
    /\ input = <<98, 38, 61, 37, 50, 66, 38, 98, 61, 61>>
    /\ map = (K_b :> << <<>>, <<61>> >>) @@ (<<>> :> << <<43>> >>)

----------------------------------------------------------------------------
(* C18 *)

Scanned == last.op = "scanner_parse_from_str"

NonEmpty(entry) == entry # <<>>

\* the pairs of the non-empty entries, in the order of the entries
PairsOfEntries ==
    LET es == SelectSeq(EntriesOfData, NonEmpty)
    IN [i \in 1..Len(es) |-> PairOfEntry(es[i])]

\* C18: the scanner's iter() yields the pairs of the entries in the order the
\* entries stand in the data segment, one pair per entry: the entries of a
\* repeated key stay separate pairs, adjacent or not.
C18_EmissionOrder ==
    Scanned =>
        LET yielded == UrlEncodedDataPairScanner_iter
            es      == EntriesOfData
        IN /\ yielded = PairsOfEntries
           /\ \A k \in AllKeys :
                  Len(ValuesFor(yielded, k))
                      = Cardinality({i \in 1..Len(es) :
                                        es[i] # <<>> /\ PairOfEntry(es[i])[1] = k})

\* "x?a=2&b&a=1" scanned: key a twice, parted by b
C18_Witness ==
    /\ Scanned
    /\ input = <<120, 63, 97, 61, 50, 38, 98, 38, 97, 61, 49>>
    /\ UrlEncodedDataPairScanner_iter =
           << <<K_a, <<50>>>>, <<K_b, <<>>>>, <<K_a, <<49>>>> >>

----------------------------------------------------------------------------
(* C19 *)

CountOf(s, c) == Cardinality({i \in 1..Len(s) : s[i] = c})

\* C19 as stated: for every non-empty data segment the number of decoded pairs,
\* and len() of the freshly parsed store, is the number of '&' in the segment
\* plus one.
C19_AsStated ==
    (Parsed /\ original_data_str # <<>>) =>
        /\ Len(form_urlencoded_parse(original_data_str)) = CountOf(original_data_str, Ch.amp) + 1
        /\ len = CountOf(original_data_str, Ch.amp) + 1

\* C19 (amended): the number of decoded pairs, and len() of the freshly parsed
\* store, is the number of non-empty '&'-separated entries of the data
\* segment; an empty entry gives no pair, so the count is the number of '&'
\* plus one only when no entry is empty.
C19_PairCount ==
    Parsed =>
        LET es == EntriesOfData
            n  == Cardinality({i \in 1..Len(es) : es[i] # <<>>})
        IN /\ Len(form_urlencoded_parse(original_data_str)) = n
           /\ len = n
           /\ (\A i \in 1..Len(es) : es[i] # <<>>)
                  => n = CountOf(original_data_str, Ch.amp) + 1

\* "&a=1&b": three entries, the first one empty, two pairs
C19_Witness ==
    /\ Parsed
    /\ input = <<38, 97, 61, 49, 38, 98>>
    /\ len = 2
    /\ CountOf(original_data_str, Ch.amp) = 2

----------------------------------------------------------------------------
(* C20 *)

\* the token key=value of a pair, both halves encoded
TokenOfPair(pair) == append_encoded(pair[1]) \o <<Ch.eq>> \o append_encoded(pair[2])

\* the Pair Encoder's text for the pairs: their tokens joined by '&'
TokensJoined(pairs) == Join([i \in 1..Len(pairs) |-> TokenOfPair(pairs[i])])

EncodesAsTokens(pairs) ==
    LET text == stringify(pairs) IN
    /\ text = TokensJoined(pairs)
    /\ pairs = <<>> => text = <<>>
    /\ pairs # <<>> =>
           /\ text[1] # Ch.amp
           /\ text[Len(text)] # Ch.amp
           /\ CountOf(text, Ch.amp) = Len(pairs) - 1
           /\ CountOf(text, Ch.eq) = Len(pairs)

\* C20: stringify writes one token key=value per pair, in the order of the
\* pairs, joined by '&' with no '&' in front or at the end; no pairs give the
\* empty text and a pair with an empty value is written "key=".
C20_PairEncoder ==
    Parsed =>
        /\ EncodesAsTokens(form_urlencoded_parse(original_data_str))
        /\ EncodesAsTokens(as_pairs_of_original_order)
        /\ stringify(<<>>) = <<>>
        /\ stringify(<< <<K_b, <<>>>> >>) = <<98, 61>>

\* "b&a=+&b==": ("b", ""), ("a", " ") and ("b", "=") are written "b=&a=+&b=%3D"
C20_Witness ==
    /\ Parsed
    /\ input = <<98, 38, 97, 61, 43, 38, 98, 61, 61>>
    /\ stringify(form_urlencoded_parse(original_data_str))
           = <<98, 61, 38, 97, 61, 43, 38, 98, 61, 37, 51, 68>>

----------------------------------------------------------------------------
(* C21 *)

\* a letter, a digit or one of - . _ ~
Unreserved(b) ==
    \/ b \in Ch.d0..Ch.d9
    \/ b \in Ch.uA..Ch.uZ
    \/ b \in Ch.la..Ch.lz
    \/ b \in {Ch.dash, Ch.dot, Ch.under, 126}

OnlyUnreserved(pairs) ==
    \A i \in 1..Len(pairs) : \A h \in 1..2 : \A j \in 1..Len(pairs[i][h]) :
        Unreserved(pairs[i][h][j])

\* C21: for every slice of pairs whose keys and values hold unreserved
\* characters only (empty keys, empty values and the empty slice included),
\* the scanner built on the text of stringify yields exactly those pairs in
\* the same order, through iter() drained at once and through every iterator
\* advanced to its end.
C21_EncodeDecodeRoundTrip ==
    (last.op = "scanner_parse_from_str" /\ OnlyUnreserved(last.values)) =>
        /\ UrlEncodedDataPairScanner_iter = last.values
        /\ \A i \in 1..Len(iterators) :
               iterators[i].input = <<>> => iterators[i].yielded = last.values

\* ("", "") and ("-.", "z~") are written "=&-.=z%7E" and read back to the end
C21_Witness ==
    /\ last.op = "scanner_parse_from_str"
    /\ last.values = << << <<>>, <<>> >>, << <<45, 46>>, <<122, 126>> >> >>
    /\ OnlyUnreserved(last.values)
    /\ input = <<61, 38, 45, 46, 61, 122, 37, 55, 69>>
    /\ \E i \in 1..Len(iterators) :
           iterators[i].input = <<>> /\ Len(iterators[i].yielded) = 2

----------------------------------------------------------------------------
(* C22 *)

\* C22: parse_from_data_str("") gives a store with len() = 0 and
\* keys_length() = 0, an empty prefix, an empty ledger and to_string() = "";
\* parse_from_data_str gives a store for every input text.
C22_EmptyInput ==
    /\ (Parsed /\ input = <<>>) =>
           /\ len = 0
           /\ keys_length = 0
           /\ prefix = <<>>
           /\ original_keys_in_order = <<>>
           /\ to_string = <<>>
           /\ to_string_of_original_order = <<>>
           /\ to_string_of_sorted_order = <<>>
    /\ last.op = "none" =>
           LET q == parse_from_data_str(input) IN
           /\ Len(q.prefix) + Len(q.original_data_str) <= Len(input)
           /\ Len(q.original_keys_in_order) = Cardinality(DOMAIN q.map)

\* the store built from ""
C22_Witness ==
    /\ Parsed
    /\ input = <<>>
    /\ map = EmptyMap
    /\ len = 0

----------------------------------------------------------------------------
(* C23 *)

\* C23: every iterator that iter() hands out starts at the first pair of the
\* scanner, whatever iterators were handed out before and however far they
\* were advanced, and what it yields is the same sequence from the start;
\* neither iter() nor next() on an iterator changes the scanner.
C23_RestartableScanner ==
    /\ [](Scanned =>
            /\ pairs_iterator = original_data_str
            /\ LET all == form_urlencoded_parse(original_data_str) IN
               \A i \in 1..Len(iterators) :
                   iterators[i].yielded \o form_urlencoded_parse(iterators[i].input) = all)
    /\ [][Len(iterators') = Len(iterators) + 1 =>
            /\ iterators'[Len(iterators')] = [input |-> original_data_str, yielded |-> <<>>]
            /\ \A i \in 1..Len(iterators) : iterators'[i] = iterators[i]
            /\ UNCHANGED <<prefix, original_data_str, pairs_iterator>>]_vars
    /\ [][(Len(iterators') = Len(iterators) /\ iterators' # iterators) =>
            /\ Cardinality({i \in 1..Len(iterators) : iterators'[i] # iterators[i]}) = 1
            /\ UNCHANGED <<prefix, original_data_str, pairs_iterator>>]_vars

\* one iterator was advanced to the end of two pairs, another one by one pair
C23_Witness ==
    /\ Scanned
    /\ Len(iterators) = 2
    /\ iterators[1].input = <<>> /\ Len(iterators[1].yielded) = 2
    /\ Len(iterators[2].yielded) = 1
    /\ iterators[2].yielded[1] = iterators[1].yielded[1]
    /\ iterators[2].input # <<>>

----------------------------------------------------------------------------
(* C24 *)

\* the keys of the pairs the input text decodes to
KeysParsedFromInput ==
    KeysOfPairs(form_urlencoded_parse(split_url_encoded_string(input)[2]))

\* C24: in every reachable store original_keys_in_order holds no key twice and
\* holds exactly the distinct keys of the original parse, in the order of
\* their first appearance.
C24_ArrivalLedger ==
    LET ledger == original_keys_in_order
        parsed == KeysParsedFromInput
    IN /\ \A i, j \in 1..Len(ledger) : i < j => ledger[i] # ledger[j]
       /\ {ledger[i] : i \in 1..Len(ledger)} = {parsed[i] : i \in 1..Len(parsed)}
       /\ \A i, j \in 1..Len(ledger) :
              i < j => Find(parsed, ledger[i]) < Find(parsed, ledger[j])

\* "a=1&b=2&a=3" after two mutations: the ledger is a, b
C24_Witness ==
    /\ input = <<97, 61, 49, 38, 98, 61, 50, 38, 97, 61, 51>>
    /\ nops = 2
    /\ original_keys_in_order = <<K_a, K_b>>
    /\ K_a \notin DOMAIN map

----------------------------------------------------------------------------
(* C25 *)

\* C25: every call of set, set_one, push, delete and clear leaves prefix,
\* original_data_str and original_keys_in_order as they were, so in every
\* reachable store they are what the construction computed from the input: a
\* deleted key stays in the ledger and a new key never enters it.
C25_BookkeepingFrame ==
    /\ [](LET q == parse_from_data_str(input) IN
          /\ prefix = q.prefix
          /\ original_data_str = q.original_data_str
          /\ original_keys_in_order = q.original_keys_in_order)
    /\ [][nops' = nops + 1 =>
            UNCHANGED <<prefix, original_data_str, original_keys_in_order>>]_vars

\* a ledger key was deleted and a new key added: the ledger shows neither change
C25_Witness ==
    /\ nops = 2
    /\ prefix # <<>>
    /\ \E i \in 1..Len(original_keys_in_order) : original_keys_in_order[i] \notin DOMAIN map
    /\ K_n \in DOMAIN map
    /\ ~InLedger(K_n)

----------------------------------------------------------------------------
(* C27 *)

\* C27: a call of set, set_one, push or delete on key k neither adds nor
\* removes any other key and leaves the value list of every other key as it
\* was.
C27_PerKeyFrame ==
    [][(Called("set") \/ Called("set_one") \/ Called("push") \/ Called("delete")) =>
          \A k \in (DOMAIN map \cup DOMAIN map') \ {last'.key} :
              /\ k \in DOMAIN map
              /\ k \in DOMAIN map'
              /\ map'[k] = map[k]]_vars

\* a key was deleted from a store in which another key holds two values
C27_Witness ==
    /\ last.op = "delete"
    /\ InLedger(last.key)
    /\ \E k \in DOMAIN map : k # last.key /\ Len(map[k]) = 2

----------------------------------------------------------------------------
(* C26 *)

\* the step re-adds, by set, set_one or push, a key of the original parse that
\* is not in entries (a ledger key is absent only once delete or clear has
\* removed it)
ReAdded ==
    /\ Called("set") \/ Called("set_one") \/ Called("push")
    /\ InLedger(last'.key)
    /\ last'.key \notin DOMAIN map

\* k stands in ks, before or after each other original key as in the ledger,
\* and before every key that is not in the ledger
AtLedgerPosition(ks, k) ==
    /\ Occurs(ks, k)
    /\ \A i \in 1..Len(ks) :
           ks[i] # k =>
               IF InLedger(ks[i])
               THEN (i < Find(ks, k)) <=>
                        (Find(original_keys_in_order, ks[i]) < Find(original_keys_in_order, k))
               ELSE Find(ks, k) < i

\* C26 as stated: a key of the original parse that was removed and is re-added
\* by set, set_one or push stands again at its ledger position in the
\* original-order keys, pairs and string.
C26_AsStated ==
    [][ReAdded =>
          /\ AtLedgerPosition(keys_of_original_order', last'.key)
          /\ AtLedgerPosition(KeysOfPairs(as_pairs_of_original_order'), last'.key)
          /\ AtLedgerPosition(KeysOfString(to_string_of_original_order'), last'.key)]_vars

\* C26 (amended): a step that re-adds a removed key of the original parse
\* puts it back in entries and leaves the ledger alone, and a ledger key just
\* written by set, set_one or push stands at its ledger position in
\* keys_of_original_order(), and in the original-order pairs and string when
\* it holds at least one value; re-added by set(key, []) it is in neither of
\* those two views.
C26_ReAddedAtLedgerPosition ==
    /\ []((AfterWrite /\ InLedger(last.key)) =>
            LET inPairs  == KeysOfPairs(as_pairs_of_original_order)
                inString == KeysOfString(to_string_of_original_order)
            IN /\ AtLedgerPosition(keys_of_original_order, last.key)
               /\ IF map[last.key] # <<>>
                  THEN /\ AtLedgerPosition(inPairs, last.key)
                       /\ AtLedgerPosition(inString, last.key)
                  ELSE /\ ~Occurs(inPairs, last.key)
                       /\ ~Occurs(inString, last.key))
    /\ [][ReAdded => (last'.key \in DOMAIN map' /\ UNCHANGED original_keys_in_order)]_vars

\* "a=1&b=2": a was deleted and pushed again; the map iterates b first and
\* the original-order views still begin with a
C26_Witness ==
    /\ input = <<97, 61, 49, 38, 98, 61, 50>>
    /\ nops = 2
    /\ last.op = "push" /\ last.key = K_a
    /\ map[K_a] = <<last.value>>
    /\ iter_order = <<K_b, K_a>>
    /\ keys_of_original_order = <<K_a, K_b>>
    /\ as_pairs_of_original_order[1][1] = K_a

----------------------------------------------------------------------------
(* C28 *)

Found(result) == result # None

\* the keys of entries that hold no value at all
KeysWithoutValues == {k \in DOMAIN map : map[k] = <<>>}

\* C28 as stated: for every key, get / get_multiple_values reports found
\* exactly when get_first and get_last report found; every key of entries has
\* at least one value, and keys_length() <= len().
C28_AsStated ==
    /\ \A k \in AllKeys :
          /\ Found(get(k)) <=> (Found(get_first(k)) /\ Found(get_last(k)))
          /\ Found(get_multiple_values(k)) <=> (Found(get_first(k)) /\ Found(get_last(k)))
    /\ KeysWithoutValues = {}
    /\ keys_length <= len

\* C28 (amended): for every key, get_first reports found exactly when
\* get_last does, and exactly when get / get_multiple_values reports found
\* with at least one value; the keys that hold a value are no more than
\* len(); and a key comes to hold no value only by a call of set with an
\* empty list.
C28_LookupConsistency ==
    /\ [](/\ \A k \in AllKeys :
                LET all == get(k)
                IN /\ all = get_multiple_values(k)
                   /\ Found(get_first(k)) <=> Found(get_last(k))
                   /\ Found(get_first(k)) <=> (Found(all) /\ all[1] # <<>>)
          /\ keys_length - Cardinality(KeysWithoutValues) <= len
          /\ (KeysWithoutValues = {} => keys_length <= len))
    /\ [][\A k \in AllKeys :
             (k \in DOMAIN map' /\ map'[k] = <<>> /\ ~(k \in DOMAIN map /\ map[k] = <<>>))
                 => (last'.op = "set" /\ last'.key = k /\ last'.values = <<>>)]_vars

\* after set("a", []): get("a") is found and empty, get_first("a") and
\* get_last("a") are not found, and the store has more keys than pairs
C28_Witness ==
    /\ last.op = "set" /\ last.key = K_a /\ last.values = <<>>
    /\ get(K_a) = Some(<<>>)
    /\ get_first(K_a) = None
    /\ get_last(K_a) = None
    /\ \E k \in DOMAIN map : Found(get_first(k)) /\ Found(get_last(k))
    /\ keys_length > len

----------------------------------------------------------------------------
(* C29 *)

\* how many times the pair p stands in pairs
Multiplicity(pairs, p) == Cardinality({i \in 1..Len(pairs) : pairs[i] = p})

\* the two sequences of pairs hold the same pairs, each as many times
SameMultiset(ps, qs) ==
    /\ Len(ps) = Len(qs)
    /\ \A i \in 1..Len(ps) : Multiplicity(ps, ps[i]) = Multiplicity(qs, ps[i])

\* C29: as_pairs(), as_pairs_of_original_order() and as_pairs_of_sorted_order()
\* hold exactly the same multiset of (key, value) pairs, and the length of
\* each is len().
C29_ViewAgreement ==
    LET plain    == as_pairs
        original == as_pairs_of_original_order
        sorted   == as_pairs_of_sorted_order
    IN /\ SameMultiset(plain, original)
       /\ SameMultiset(plain, sorted)
       /\ SameMultiset(original, sorted)
       /\ Len(plain) = len
       /\ Len(original) = len
       /\ Len(sorted) = len

\* a mutated store of at least three pairs with a ledger key and a left-over
\* key, whose three pair views are three different sequences
C29_Witness ==
    /\ Mutated
    /\ len >= 3
    /\ \E k \in DOMAIN map : InLedger(k) /\ map[k] # <<>>
    /\ \E k \in DOMAIN map : ~InLedger(k) /\ map[k] # <<>>
    /\ as_pairs # as_pairs_of_original_order
    /\ as_pairs # as_pairs_of_sorted_order
    /\ as_pairs_of_original_order # as_pairs_of_sorted_order

----------------------------------------------------------------------------
(* C30 *)

\* the distinct keys of ks, in the order of their first appearance
RECURSIVE DistinctInOrder(_, _)
DistinctInOrder(ks, seen) ==
    IF ks = <<>> THEN seen
    ELSE DistinctInOrder(Tail(ks),
                         IF Occurs(seen, Head(ks)) THEN seen ELSE Append(seen, Head(ks)))

KeySet(ks) == {ks[i] : i \in 1..Len(ks)}

\* ks without the keys that hold no value, in the same order
HoldsValue(k) == k \in DOMAIN map /\ map[k] # <<>>
WithValues(ks) == SelectSeq(ks, HoldsValue)

\* C30 as stated: the distinct keys of as_pairs_of_original_order(), in order
\* of first appearance, are keys_of_original_order(); the same holds between
\* as_pairs_of_sorted_order() and keys_of_sorted_order(); and the set of keys
\* in as_pairs() is the set returned by keys().
C30_AsStated ==
    /\ DistinctInOrder(KeysOfPairs(as_pairs_of_original_order), <<>>) = keys_of_original_order
    /\ DistinctInOrder(KeysOfPairs(as_pairs_of_sorted_order), <<>>) = keys_of_sorted_order
    /\ KeySet(KeysOfPairs(as_pairs)) = KeySet(keys)

\* C30 (amended): the distinct keys of as_pairs_of_original_order(), in order
\* of first appearance, are keys_of_original_order() without the keys that
\* hold no value; the same holds between as_pairs_of_sorted_order() and
\* keys_of_sorted_order(); the set of keys in as_pairs() is the set returned
\* by keys() less the keys that hold no value; and each key view lists every
\* key of entries once.
C30_KeyViewsAgree ==
    LET original == keys_of_original_order
        sorted   == keys_of_sorted_order
        plain    == keys
    IN /\ DistinctInOrder(KeysOfPairs(as_pairs_of_original_order), <<>>) = WithValues(original)
       /\ DistinctInOrder(KeysOfPairs(as_pairs_of_sorted_order), <<>>) = WithValues(sorted)
       /\ KeySet(KeysOfPairs(as_pairs)) = KeySet(plain) \ KeysWithoutValues
       /\ KeySet(original) = DOMAIN map /\ Len(original) = keys_length
       /\ KeySet(sorted) = DOMAIN map /\ Len(sorted) = keys_length
       /\ KeySet(plain) = DOMAIN map /\ Len(plain) = keys_length
       /\ (KeysWithoutValues = {} =>
              /\ DistinctInOrder(KeysOfPairs(as_pairs_of_original_order), <<>>) = original
              /\ DistinctInOrder(KeysOfPairs(as_pairs_of_sorted_order), <<>>) = sorted)

\* a store of three keys in which one key holds two values and another, set
\* to the empty list, holds none: the key views list three keys, the pair
\* views two, and the original and sorted orders differ
C30_Witness ==
    /\ keys_length = 3
    /\ Cardinality(KeysWithoutValues) = 1
    /\ \E k \in DOMAIN map : Len(map[k]) >= 2
    /\ Len(DistinctInOrder(KeysOfPairs(as_pairs_of_original_order), <<>>)) = 2
    /\ Len(keys_of_original_order) = 3
    /\ keys_of_original_order # keys_of_sorted_order

====
